---- MODULE Spec2Model ----
(***************************************************************************)
(* go-sflag: binding of the fields of a (nested) struct to the flags of a  *)
(* flag.FlagSet.  The model follows src/sflag.go (the revision starting at *)
(* line 65: AddFlags / addFlags / SetFromFlags / getFlagIndexes).          *)
(*                                                                         *)
(* Go values are modelled as follows.                                      *)
(*   - a struct type is a sequence of fields; a field is a record          *)
(*     [exported, anonymous, tag, typ, ptr, sub];                          *)
(*   - a struct tag value is the sequence of its comma separated segments  *)
(*     (<<>> is the absent / empty tag);                                   *)
(*   - a reflect index is a sequence of 0-based field offsets;             *)
(*   - integers are TLA+ integers, a time.Duration counts seconds, a       *)
(*     float64 counts thousandths; strings are TLA+ strings.               *)
(***************************************************************************)
EXTENDS Integers, Sequences, FiniteSets, TLC

VARIABLES
  root,     \* the Go type of the value passed as s: a field record (the struct, or a non struct)
  rec,      \* the Record's field values: reflect index -> cell [nil, v]
  fs,       \* the flag.FlagSet's formal flags: name -> [typ, value, DefValue, Usage]
  actual,   \* the flag.FlagSet's actual flags: the names set on the command line
  parsed,   \* flag.FlagSet.Parsed()
  args,     \* the command line handed to Parse: name -> token
  op,       \* the last call made
  err,      \* the panic of the last call ("" when it returned)
  at,       \* the flag name the panic message names
  pre,      \* the field values when the last SetFromFlags call started
  preFs,    \* the registry when the last AddFlags call started
  written,  \* the flag names whose field the last SetFromFlags call wrote
  adds,     \* number of AddFlags calls made
  sets      \* number of SetFromFlags calls made

vars == <<root, rec, fs, actual, parsed, args, op, err, at, pre, preFs, written, adds, sets>>

\* ------------------------------------------------------------------ bounds
MaxArgs == 2
MaxAddCalls == 2
MaxSetCalls == 2

\* ------------------------------------------------------------- Go types
Fld(exported, anonymous, tag, typ, ptr, sub) ==
  [exported |-> exported, anonymous |-> anonymous, tag |-> tag,
   typ |-> typ, ptr |-> ptr, sub |-> sub]

\* reflect.Type.Kind() of the (pointer stripped) type
Kind(typ) ==
  CASE typ = "Duration" -> "int64"
    [] typ = "Mode" -> "string"
    [] OTHER -> typ

\* reflect.PointerTo(typ).Implements(flag.Value): type Mode string, with
\* func (m *Mode) Set(string) error and func (m *Mode) String() string
Implements(typ) == typ = "Mode"

\* the zero value of a type
Zero(typ) ==
  CASE Kind(typ) = "bool" -> FALSE
    [] Kind(typ) = "string" -> ""
    [] Kind(typ) = "struct" -> <<>>
    [] OTHER -> 0

\* ------------------------------------------------- strconv / time parsing
BoolTokens ==
  "1" :> TRUE @@ "t" :> TRUE @@ "T" :> TRUE @@ "TRUE" :> TRUE @@ "true" :> TRUE @@ "True" :> TRUE @@
  "0" :> FALSE @@ "f" :> FALSE @@ "F" :> FALSE @@ "FALSE" :> FALSE @@ "false" :> FALSE @@ "False" :> FALSE

\* strconv.ParseInt(s, 0, 64) on the tokens of the model
IntTokens ==
  "0" :> 0 @@ "5" :> 5 @@ "+5" :> 5 @@ "7" :> 7 @@ "9" :> 9 @@ "0x10" :> 16 @@
  "16" :> 16 @@ "300" :> 300 @@ "-1" :> (-1) @@ "-129" :> (-129)

\* strconv.ParseUint(s, 0, 64): no sign is accepted
UintTokens ==
  "0" :> 0 @@ "5" :> 5 @@ "7" :> 7 @@ "9" :> 9 @@ "0x10" :> 16 @@ "16" :> 16 @@ "300" :> 300

\* strconv.ParseFloat(s, 64), in thousandths
FloatTokens ==
  "0" :> 0 @@ "5" :> 5000 @@ "+5" :> 5000 @@ "7" :> 7000 @@ "9" :> 9000 @@ "16" :> 16000 @@
  "300" :> 300000 @@ "-1" :> (-1000) @@ "1.50" :> 1500 @@ "1.5" :> 1500 @@ "2" :> 2000 @@
  "0.25" :> 250 @@ "2.0" :> 2000

\* time.ParseDuration(s), in seconds
DurationTokens ==
  "0" :> 0 @@ "0s" :> 0 @@ "5s" :> 5 @@ "60s" :> 60 @@ "1m0s" :> 60 @@ "1m" :> 60 @@
  "90s" :> 90 @@ "1m30s" :> 90 @@ "1h" :> 3600

\* (*Mode).Set: the values the type accepts
ModeTokens == "fast" :> "fast" @@ "slow" :> "slow"

Lookup(table, s) ==
  IF s \in DOMAIN table THEN [ok |-> TRUE, v |-> table[s]] ELSE [ok |-> FALSE, v |-> 0]

\* flag.Value.Set of a flag of type ftyp: [ok, v]
SetValue(ftyp, s) ==
  CASE ftyp = "bool" -> IF s \in DOMAIN BoolTokens THEN [ok |-> TRUE, v |-> BoolTokens[s]]
                        ELSE [ok |-> FALSE, v |-> FALSE]
    [] ftyp \in {"int", "int64"} -> Lookup(IntTokens, s)
    [] ftyp \in {"uint", "uint64"} -> Lookup(UintTokens, s)
    [] ftyp = "float64" -> Lookup(FloatTokens, s)
    [] ftyp = "Duration" -> Lookup(DurationTokens, s)
    [] ftyp = "string" -> [ok |-> TRUE, v |-> s]
    [] ftyp = "Mode" -> IF s \in DOMAIN ModeTokens THEN [ok |-> TRUE, v |-> ModeTokens[s]]
                        ELSE [ok |-> FALSE, v |-> ""]

\* strconv.Itoa / FormatInt
Itoa(n) == ToString(n)

\* strconv.FormatFloat(v, 'g', -1, 64) of a number of thousandths
FormatFloat(m) ==
  LET a == IF m < 0 THEN -m ELSE m
      whole == a \div 1000
      frac == a % 1000
      d1 == frac \div 100
      d2 == (frac \div 10) % 10
      d3 == frac % 10
      digits == ToString(d1) \o (IF d2 = 0 /\ d3 = 0 THEN ""
                                 ELSE ToString(d2) \o (IF d3 = 0 THEN "" ELSE ToString(d3)))
  IN (IF m < 0 THEN "-" ELSE "") \o ToString(whole) \o (IF frac = 0 THEN "" ELSE "." \o digits)

\* time.Duration.String() of a number of seconds
DurationString(n) ==
  LET a == IF n < 0 THEN -n ELSE n
      h == a \div 3600
      m == (a \div 60) % 60
      s == a % 60
  IN (IF n < 0 THEN "-" ELSE "") \o
     (IF h > 0 THEN ToString(h) \o "h" ELSE "") \o
     (IF h > 0 \/ m > 0 THEN ToString(m) \o "m" ELSE "") \o
     ToString(s) \o "s"

\* flag.Value.String of a flag of type ftyp holding v
String(ftyp, v) ==
  CASE ftyp = "bool" -> IF v THEN "true" ELSE "false"
    [] ftyp \in {"int", "int64", "uint", "uint64"} -> Itoa(v)
    [] ftyp = "float64" -> FormatFloat(v)
    [] ftyp = "Duration" -> DurationString(v)
    [] ftyp = "string" -> v
    [] ftyp = "Mode" -> v

\* ------------------------------------------------------------ parseTag
\* strings.SplitN(v, ",", 3) of a tag given by its segments: [ok, name, deflt, help]
parseTag(v) ==
  IF Len(v) < 3 THEN [ok |-> FALSE, name |-> "", deflt |-> "", help |-> <<>>]
  ELSE [ok |-> TRUE, name |-> v[1], deflt |-> v[2], help |-> SubSeq(v, 3, Len(v))]

\* ------------------------------------------------ reflect.VisibleFields
\* The fields of a struct type and, depth first, the promoted fields of its
\* anonymous struct fields, each with its index sequence.
RECURSIVE Walk(_, _, _)
Walk(fields, prefix, i) ==
  IF i > Len(fields) THEN <<>>
  ELSE LET f == fields[i]
           index == prefix \o <<i - 1>>
       IN <<[Index |-> index, f |-> f]>>
          \o (IF f.anonymous /\ f.typ = "struct" THEN Walk(f.sub, index, 1) ELSE <<>>)
          \o Walk(fields, prefix, i + 1)

VisibleFields(t) == Walk(t.sub, <<>>, 1)

\* ------------------------------------------------------------ flag.FlagSet
\* the flag the flag package defines for (ftyp, name, usage): value and
\* DefValue are those of the zero value handed to fs.Bool, fs.Int, ..., fs.Var
NewFlag(ftyp, usage) ==
  [typ |-> ftyp, value |-> Zero(ftyp), DefValue |-> String(ftyp, Zero(ftyp)), Usage |-> usage]

Define(reg, name, fl) == [n \in DOMAIN reg \cup {name} |-> IF n = name THEN fl ELSE reg[n]]

\* the switch on kind of addFlags: the type of flag registered, "" for none
FlagType(typ) ==
  LET kind == Kind(typ) IN
  CASE kind = "bool" -> "bool"
    [] kind = "int" -> "int"
    [] kind = "uint" -> "uint"
    [] kind \in {"int8", "int16", "int32", "int64"} ->
         IF typ = "Duration" THEN "Duration" ELSE "int64"
    [] kind \in {"uint8", "uint16", "uint32", "uint64"} -> "uint64"
    [] kind \in {"float32", "float64"} -> "float64"
    [] kind = "string" -> "string"
    [] OTHER -> ""

\* the flag type addFlags registers for a field type: a flag.Value implementation
\* is looked for before the switch on kind
Dispatch(typ) == IF Implements(typ) THEN typ ELSE FlagType(typ)

\* variant: the default value is applied to the flag package's own types only
AppliesDefault_builtinOnly(typ, deflt) == deflt # "" /\ ~Implements(typ)

\* whether addFlags applies the tag's default value to the new flag
AppliesDefault(typ, deflt) == deflt # ""

\* variant: the default value is set, DefValue is left as defined
SetDefault_valueOnly(fl, v) == [fl EXCEPT !.value = v]

\* fl.DefValue = fl.Value.String(), after a successful fl.Value.Set(deflt)
SetDefault(fl, v) == [fl EXCEPT !.value = v, !.DefValue = String(fl.typ, v)]

Panic(reg, msg, name) == [fs |-> reg, err |-> msg, at |-> name]

\* the fields a traversal passes over
addFlagsSkips(fi) == fi.anonymous \/ ~fi.exported

\* variant: no lookup before the definition
AlreadyDefined_never(reg, name) == FALSE

\* if fl := fs.Lookup(name); fl != nil { panic }
AlreadyDefined(reg, name) == name \in DOMAIN reg

\* variant: the default value is checked before the flag is defined
InvalidDefault_undefined(reg, reg1, name) == Panic(reg, "invalid default value", name)

\* the panic on a default value the flag's Set refuses: reg is the registry
\* before the field, reg1 the registry with the field's flag defined
InvalidDefault(reg, reg1, name) == Panic(reg1, "invalid default value", name)

\* one annotated field of addFlags: parseTag, the duplicate check, the
\* registration and the default value
register(reg, fi) ==
  LET t == parseTag(fi.tag)
      ftyp == Dispatch(fi.typ)
      fl == NewFlag(ftyp, t.help)
      reg1 == Define(reg, t.name, fl)
      d == SetValue(ftyp, t.deflt)
  IN IF ~t.ok THEN Panic(reg, "invalid tag value", "")
     ELSE IF AlreadyDefined(reg, t.name) THEN Panic(reg, "flag already defined", t.name)
     ELSE IF ftyp = "" THEN Panic(reg, "invalid type", t.name)
     ELSE IF ~AppliesDefault(fi.typ, t.deflt) THEN [fs |-> reg1, err |-> "", at |-> ""]
     ELSE IF ~d.ok THEN InvalidDefault(reg, reg1, t.name)
     ELSE [fs |-> Define(reg, t.name, SetDefault(fl, d.v)), err |-> "", at |-> ""]

RECURSIVE addFlags(_, _)
RECURSIVE addFlagsFrom(_, _, _)
\* the loop of addFlags over reflect.VisibleFields(v.Type()), from its i-th field
addFlagsFrom(reg, fields, i) ==
  IF i > Len(fields) THEN [fs |-> reg, err |-> "", at |-> ""]
  ELSE LET fi == fields[i].f IN
       IF addFlagsSkips(fi) THEN addFlagsFrom(reg, fields, i + 1)
       ELSE IF fi.tag = <<>> THEN
              IF Kind(fi.typ) = "struct"
              THEN LET r == addFlags(reg, fi) IN
                   IF r.err # "" THEN r ELSE addFlagsFrom(r.fs, fields, i + 1)
              ELSE addFlagsFrom(reg, fields, i + 1)
       ELSE LET r == register(reg, fi) IN
            IF r.err # "" THEN r ELSE addFlagsFrom(r.fs, fields, i + 1)

\* addFlags(fs, v): v is the struct itself at the root and the field's value
\* below it, a pointer for a field of pointer type
addFlags(reg, v) ==
  IF v.ptr THEN Panic(reg, "reflect.VisibleFields of non-struct type", "")
  ELSE addFlagsFrom(reg, VisibleFields(v), 1)

\* AddFlags(fs, s): s is a struct or a pointer to one
AddFlagsResult(reg, s) ==
  IF Kind(s.typ) # "struct" THEN Panic(reg, "not a struct", "")
  ELSE addFlags(reg, [s EXCEPT !.ptr = FALSE])

\* -------------------------------------------------------- getFlagIndexes
\* variant: non exported fields are indexed
indexSkips_anonymousOnly(fi) == fi.anonymous

indexSkips(fi) == fi.anonymous \/ ~fi.exported

\* whether getFlagIndexes descends into an unannotated field
indexRecurses(fi) == Kind(fi.typ) = "struct" /\ ~fi.ptr

RECURSIVE getFlagIndexes(_, _, _, _)
\* the loop of getFlagIndexes over the visible fields, from the i-th:
\* [indexes, err, at]
getFlagIndexes(indexes, fields, pindex, i) ==
  IF i > Len(fields) THEN [indexes |-> indexes, err |-> "", at |-> ""]
  ELSE LET fi == fields[i].f
           index == pindex \o fields[i].Index
           t == parseTag(fi.tag)
       IN IF indexSkips(fi) THEN getFlagIndexes(indexes, fields, pindex, i + 1)
          ELSE IF fi.tag = <<>> THEN
                 IF indexRecurses(fi)
                 THEN LET r == getFlagIndexes(indexes, VisibleFields(fi), index, 1) IN
                      IF r.err # "" THEN r
                      ELSE getFlagIndexes(r.indexes, fields, pindex, i + 1)
                 ELSE getFlagIndexes(indexes, fields, pindex, i + 1)
          ELSE IF ~t.ok THEN [indexes |-> indexes, err |-> "invalid tag value", at |-> ""]
          ELSE IF t.name \in DOMAIN indexes
               THEN [indexes |-> indexes, err |-> "duplicate flag", at |-> t.name]
          ELSE getFlagIndexes(Define(indexes, t.name, index), fields, pindex, i + 1)

\* ------------------------------------------------------------ the Record
\* every field of a struct type with its index, through the nested structs
\* held by value
RECURSIVE AllFields(_, _, _)
AllFields(fields, prefix, i) ==
  IF i > Len(fields) THEN <<>>
  ELSE LET f == fields[i]
           index == prefix \o <<i - 1>>
       IN <<[Index |-> index, f |-> f]>>
          \o (IF f.typ = "struct" /\ ~f.ptr THEN AllFields(f.sub, index, 1) ELSE <<>>)
          \o AllFields(fields, prefix, i + 1)

\* reflect.Value.FieldByIndex: the field descriptor at an index
RECURSIVE FieldAt(_, _)
FieldAt(t, index) ==
  IF Len(index) = 1 THEN t.sub[index[1] + 1]
  ELSE FieldAt(t.sub[index[1] + 1], Tail(index))

\* reflect.Value.IsZero of a field's cell
IsZero(fi, cell) == IF fi.ptr THEN cell.nil ELSE cell.v = Zero(fi.typ)

ZeroCell(fi) == [nil |-> fi.ptr, v |-> Zero(fi.typ)]

\* --------------------------------------------------------- reflect.Convert
Numeric(kind) ==
  kind \in {"int", "int8", "int16", "int32", "int64",
            "uint", "uint8", "uint16", "uint32", "uint64", "float32", "float64"}

\* reflect.Type.ConvertibleTo, by kind (integer to string conversion included)
Convertible(from, to) ==
  LET kf == Kind(from)
      kt == Kind(to)
  IN \/ Numeric(kf) /\ Numeric(kt)
     \/ kf = "bool" /\ kt = "bool"
     \/ kt = "string" /\ kf \in {"string", "int", "int8", "int16", "int32", "int64",
                                  "uint", "uint8", "uint16", "uint32", "uint64"}

\* two's complement truncation to a signed width
WrapSigned(v, half) == ((v + half) % (2 * half)) - half

\* reflect.Value.Convert between the types the model converts: a flag's
\* 64 bit integer to the narrower integer type of its field.  The values of
\* the model are far inside 32 bits, so a conversion to a width of 32 or 64
\* bits, and a float64 to float32 of the values used, changes nothing.
Convert(v, from, to) ==
  LET kt == Kind(to) IN
  CASE kt = "int8" -> WrapSigned(v, 128)
    [] kt = "int16" -> WrapSigned(v, 32768)
    [] kt = "uint8" -> v % 256
    [] kt = "uint16" -> v % 65536
    [] OTHER -> v

\* ------------------------------------------------------------ SetFromFlags
\* flag.Getter: the flag package's own values implement it, *Mode does not
HasGetter(ftyp) == ftyp # "Mode"

\* the type of flv: that of getter.Get(), or the flag.Value itself (a pointer)
FlvType(ftyp) == IF HasGetter(ftyp) THEN [ptr |-> FALSE, typ |-> ftyp]
                 ELSE [ptr |-> TRUE, typ |-> ftyp]

\* variants of the write-skip test: no skip at all; the skip of the revision that
\* does not track the flags set on the command line; a skip that tests the
\* field for being zero instead of non zero
SkipsWrite_noSkip(zero, str, defValue, explicit) == FALSE
SkipsWrite_noExplicit(zero, str, defValue, explicit) == ~zero /\ str = defValue
SkipsWrite_inverted(zero, str, defValue, explicit) == zero /\ str = defValue /\ ~explicit

\* the write-skip test of SetFromFlags
SkipsWrite(zero, str, defValue, explicit) == ~zero /\ str = defValue /\ ~explicit

\* variant: no test of fs.Parsed()
NotParsed_never(p) == FALSE

\* if !fs.Parsed() { panic }
NotParsed(p) == ~p

\* variant: fiv = fiv.Elem() inside the fiv.IsNil() branch
FivTarget_nilOnly(fi, cell) == [ptr |-> fi.ptr /\ ~cell.nil, typ |-> fi.typ]

\* the type of fiv once a pointer field is allocated and dereferenced
FivTarget(fi, cell) == [ptr |-> FALSE, typ |-> fi.typ]

\* the callback of fs.VisitAll for the flag called name, on the field values r:
\* [rec, err, wrote]
visit(r, t, reg, explicit, indexes, name) ==
  LET fl == reg[name]
      index == indexes[name]
      fi == FieldAt(t, index)
      cell == r[index]
      flvT == FlvType(fl.typ)
      fivT == [ptr |-> fi.ptr, typ |-> fi.typ]
      alloc == IF fi.ptr /\ cell.nil THEN [nil |-> FALSE, v |-> Zero(fi.typ)] ELSE cell
      target == FivTarget(fi, cell)
      flvE == [ptr |-> FALSE, typ |-> flvT.typ]
      store(v) == [rec |-> [r EXCEPT ![index] = [nil |-> FALSE, v |-> v]], err |-> "", wrote |-> TRUE]
  IN IF name \notin DOMAIN indexes THEN [rec |-> r, err |-> "", wrote |-> FALSE]
     ELSE IF SkipsWrite(IsZero(fi, cell), String(fl.typ, fl.value), fl.DefValue, name \in explicit)
     THEN [rec |-> r, err |-> "", wrote |-> FALSE]
     ELSE IF fivT = flvT THEN store(fl.value)
     ELSE IF flvE = target THEN store(fl.value)
     ELSE IF target.ptr \/ ~Convertible(flvE.typ, target.typ)
     THEN [rec |-> [r EXCEPT ![index] = alloc], err |-> "reflect: value is not convertible", wrote |-> FALSE]
     ELSE store(Convert(fl.value, flvE.typ, target.typ))

\* flag names in the order of fs.VisitAll (sorted)
SortedNames == <<"a", "b", "c", "d", "f", "mode", "p", "t", "u", "x">>

RECURSIVE visitAll(_, _, _, _, _, _, _)
\* fs.VisitAll from the i-th name on: [rec, err, at, written]
visitAll(r, t, reg, explicit, indexes, i, w) ==
  IF i > Len(SortedNames) THEN [rec |-> r, err |-> "", at |-> "", written |-> w]
  ELSE LET name == SortedNames[i] IN
       IF name \notin DOMAIN reg THEN visitAll(r, t, reg, explicit, indexes, i + 1, w)
       ELSE LET res == visit(r, t, reg, explicit, indexes, name) IN
            IF res.err # "" THEN [rec |-> res.rec, err |-> res.err, at |-> name, written |-> w]
            ELSE visitAll(res.rec, t, reg, explicit, indexes, i + 1,
                          IF res.wrote THEN w \cup {name} ELSE w)

\* SetFromFlags(s, fs): [rec, err, at, written]
SetFromFlagsResult(r, s, reg, explicit, isParsed) ==
  LET t == [s EXCEPT !.ptr = FALSE]
      ix == getFlagIndexes(<<>>, VisibleFields(t), <<>>, 1)
  IN IF NotParsed(isParsed) THEN [rec |-> r, err |-> "flag not parsed", at |-> "", written |-> {}]
     ELSE IF Kind(s.typ) # "struct" THEN [rec |-> r, err |-> "not a struct", at |-> "", written |-> {}]
     ELSE IF ix.err # "" THEN [rec |-> r, err |-> ix.err, at |-> ix.at, written |-> {}]
     ELSE visitAll(r, t, reg, explicit, ix.indexes, 1, {})

\* ------------------------------------------------------- the Records tried
Tag(name, deflt) == <<name, deflt, "help">>
Leaf(tag, typ) == Fld(TRUE, FALSE, tag, typ, FALSE, <<>>)
PtrLeaf(tag, typ) == Fld(TRUE, FALSE, tag, typ, TRUE, <<>>)
Struct(sub) == Fld(TRUE, FALSE, <<>>, "struct", FALSE, sub)
PtrStruct(sub) == Fld(TRUE, FALSE, <<>>, "struct", TRUE, sub)
TaggedStruct(tag, sub) == Fld(TRUE, FALSE, tag, "struct", FALSE, sub)
Embedded(tag, sub) == Fld(TRUE, TRUE, tag, "struct", FALSE, sub)

\* annotated fields of the types the flag package knows, and a flag.Value
Leaves ==
  { Leaf(Tag("a", "5"), "int"),
    Leaf(Tag("b", "1"), "bool"),
    Leaf(Tag("c", ""), "int8"),
    Leaf(Tag("a", "x"), "string"),
    Leaf(Tag("d", "60s"), "Duration"),
    Leaf(Tag("mode", "fast"), "Mode"),
    Leaf(Tag("f", "1.50"), "float64"),
    Leaf(Tag("u", "0x10"), "uint8"),
    PtrLeaf(Tag("p", "7"), "int"),
    PtrLeaf(Tag("mode", ""), "Mode") }

\* fields that make a traversal fail, or that it passes over
Odd ==
  { Leaf(Tag("d", "notaduration"), "Duration"),
    Leaf(Tag("b", "maybe"), "bool"),
    Leaf(Tag("mode", "bogus"), "Mode"),
    Leaf(Tag("x", ""), "complex128"),
    Leaf(<<"a", "5">>, "int"),
    Leaf(<<>>, "int"),
    Fld(FALSE, FALSE, Tag("a", "5"), "int", FALSE, <<>>),
    Embedded(Tag("t", ""), <<Leaf(Tag("a", "5"), "int")>>),
    Embedded(<<>>, <<Leaf(Tag("b", "1"), "bool")>>),
    PtrStruct(<<Leaf(Tag("a", "5"), "int")>>),
    TaggedStruct(Tag("t", ""), <<Leaf(Tag("a", "5"), "int")>>),
    Struct(<<Struct(<<Leaf(Tag("a", "x"), "string")>>)>>),
    Struct(<<Leaf(Tag("c", ""), "int8"), Leaf(Tag("a", "5"), "int")>>) }

Entries == Leaves \cup Odd \cup {Struct(<<l>>) : l \in Leaves}

\* the struct types passed as s, and a value that is no struct
Roots ==
  {Fld(TRUE, FALSE, <<>>, "struct", TRUE, <<e>>) : e \in Entries}
  \cup {Fld(TRUE, FALSE, <<>>, "struct", TRUE, <<e1, e2>>) : e1 \in Entries, e2 \in Entries}
  \cup {Fld(TRUE, FALSE, <<>>, "int", TRUE, <<>>)}

\* a value other than the zero value, as a caller pre-populates a field
Sample(fi) ==
  LET k == Kind(fi.typ) IN
  [nil |-> FALSE,
   v |-> CASE k = "bool" -> TRUE
           [] fi.typ = "Mode" -> "slow"
           [] k = "string" -> "y"
           [] k = "struct" -> <<>>
           [] k = "float64" -> 250
           [] OTHER -> 9]

Cells(s) == AllFields(s.sub, <<>>, 1)
CellPaths(s) == {Cells(s)[i].Index : i \in 1..Len(Cells(s))}
\* the cells a caller pre-populates: annotated fields that are no structs
Settable(s) ==
  {Cells(s)[i].Index : i \in {j \in 1..Len(Cells(s)) :
       Cells(s)[j].f.tag # <<>> /\ Kind(Cells(s)[j].f.typ) # "struct"}}

\* flags defined in the FlagSet by other code of the program
Foreign == {<<>>, "a" :> [typ |-> "string", value |-> "x", DefValue |-> "x", Usage |-> <<"other">>]}

\* the values the command line gives to a flag of each type
CmdTokens(ftyp) ==
  CASE ftyp = "bool" -> {"true", "false"}
    [] ftyp = "int" -> {"+5", "9"}
    [] ftyp = "int64" -> {"0", "300"}
    [] ftyp \in {"uint", "uint64"} -> {"16", "300"}
    [] ftyp = "float64" -> {"1.5", "2"}
    [] ftyp = "Duration" -> {"1m", "5s"}
    [] ftyp = "string" -> {"x", ""}
    [] ftyp = "Mode" -> {"fast", "slow"}

AllTokens == {"true", "false", "+5", "9", "0", "300", "16", "1.5", "2", "1m", "5s", "x", "", "fast", "slow"}

\* ------------------------------------------------------------------ Init
Init ==
  /\ root \in Roots
  /\ \E Z \in SUBSET Settable(root) :
       rec = [p \in CellPaths(root) |->
                IF p \in Z THEN Sample(FieldAt(root, p)) ELSE ZeroCell(FieldAt(root, p))]
  /\ fs \in Foreign
  /\ actual = {}
  /\ parsed = FALSE
  /\ args = <<>>
  /\ op = "init"
  /\ err = ""
  /\ at = ""
  /\ pre = rec
  /\ preFs = fs
  /\ written = {}
  /\ adds = 0
  /\ sets = 0

\* --------------------------------------------------------------- actions
\* sflag.AddFlags(fs, &s), called before fs.Parse.  A panic ends the program:
\* no call follows one (err # "").
AddFlags ==
  /\ err = ""
  /\ ~parsed
  /\ adds < MaxAddCalls
  /\ LET r == AddFlagsResult(fs, root) IN
       /\ fs' = r.fs
       /\ err' = r.err
       /\ at' = r.at
  /\ preFs' = fs
  /\ op' = "AddFlags"
  /\ adds' = adds + 1
  /\ UNCHANGED <<root, rec, actual, parsed, args, pre, written, sets>>

\* fs.Parse(arguments), of a command line the flag package accepts: each flag
\* named on it is set and recorded as actual
Parse ==
  /\ err = ""
  /\ ~parsed
  /\ \E S \in SUBSET DOMAIN fs :
       /\ Cardinality(S) <= MaxArgs
       /\ \E a \in [S -> AllTokens] :
            /\ \A n \in S : a[n] \in CmdTokens(fs[n].typ)
            /\ args' = a
            /\ actual' = S
            /\ fs' = [n \in DOMAIN fs |->
                        IF n \in S THEN [fs[n] EXCEPT !.value = SetValue(fs[n].typ, a[n]).v]
                        ELSE fs[n]]
  /\ parsed' = TRUE
  /\ op' = "Parse"
  /\ UNCHANGED <<root, rec, err, at, pre, preFs, written, adds, sets>>

\* sflag.SetFromFlags(&s, fs)
SetFromFlags ==
  /\ err = ""
  /\ sets < MaxSetCalls
  /\ LET r == SetFromFlagsResult(rec, root, fs, actual, parsed) IN
       /\ rec' = r.rec
       /\ err' = r.err
       /\ at' = r.at
       /\ written' = r.written
  /\ pre' = rec
  /\ op' = "SetFromFlags"
  /\ sets' = sets + 1
  /\ UNCHANGED <<root, fs, actual, parsed, args, preFs, adds>>

Next == AddFlags \/ Parse \/ SetFromFlags

Spec == Init /\ [][Next]_vars

\* ============================================================== claims
\* The annotated fields the Flag Registrar is to visit, depth first: exported,
\* not embedded, reached through unannotated records and pointers to records.
RECURSIVE Annotated(_, _)
Annotated(fields, i) ==
  IF i > Len(fields) THEN <<>>
  ELSE LET f == fields[i].f IN
       (IF f.anonymous \/ ~f.exported THEN <<>>
        ELSE IF f.tag = <<>>
             THEN (IF f.typ = "struct" THEN Annotated(VisibleFields(f), 1) ELSE <<>>)
             ELSE <<f>>)
       \o Annotated(fields, i + 1)

\* The annotated fields the Field-Index Builder is to visit, with their
\* structural paths: as above, through records held by value.
RECURSIVE IndexAnnotated(_, _, _)
IndexAnnotated(fields, prefix, i) ==
  IF i > Len(fields) THEN <<>>
  ELSE LET f == fields[i].f
           path == prefix \o fields[i].Index
       IN (IF f.anonymous \/ ~f.exported THEN <<>>
           ELSE IF f.tag = <<>>
                THEN (IF f.typ = "struct" /\ ~f.ptr
                      THEN IndexAnnotated(VisibleFields(f), path, 1) ELSE <<>>)
                ELSE <<[path |-> path, f |-> f]>>)
          \o IndexAnnotated(fields, prefix, i + 1)

IsRecord == Kind(root.typ) = "struct"
RootAnnotated == IF IsRecord THEN Annotated(VisibleFields(root), 1) ELSE <<>>
RootIndexed == IF IsRecord THEN IndexAnnotated(VisibleFields(root), <<>>, 1) ELSE <<>>
TagName(f) == IF Len(f.tag) >= 1 THEN f.tag[1] ELSE ""
TagDefault(f) == IF Len(f.tag) >= 2 THEN f.tag[2] ELSE ""
HasDuplicate(fields) ==
  \E i, j \in 1..Len(fields) : i < j /\ TagName(fields[i]) = TagName(fields[j])

\* the Field-Path Index of the Record
Index == getFlagIndexes(<<>>, VisibleFields([root EXCEPT !.ptr = FALSE]), <<>>, 1)
\* the flags bound to a field of the Record
Bound == IF IsRecord /\ Index.err = "" THEN DOMAIN fs \cap DOMAIN Index.indexes ELSE {}
PathOf(n) == Index.indexes[n]
FieldOf(n) == FieldAt(root, PathOf(n))

\* the kinds the flag package has a flag for
BuiltIn(f) ==
  /\ ~Implements(f.typ)
  /\ Kind(f.typ) \in {"bool", "int", "int8", "int16", "int32", "int64", "uint", "uint8",
                      "uint16", "uint32", "uint64", "float32", "float64", "string"}

\* the value a default-value segment stands for in a flag of type ftyp: the
\* zero value for the empty segment
DefaultOf(ftyp, deflt) == IF deflt = "" THEN Zero(ftyp) ELSE SetValue(ftyp, deflt).v

\* a flag value as a field of type typ holds it
InField(ftyp, v, typ) == [nil |-> FALSE, v |-> IF ftyp = typ THEN v ELSE Convert(v, ftyp, typ)]

AllZero(r) == \A p \in DOMAIN r : r[p] = ZeroCell(FieldAt(root, p))

Synced == op = "SetFromFlags" /\ err = ""
Added == op = "AddFlags" /\ err = ""

\* C1 (Preservation): after SetFromFlags, a bound field that held a non zero
\* value when the call started, and whose flag was not set on the command
\* line, holds the value it held before.
C1_Preservation ==
  op = "SetFromFlags" =>
    \A n \in Bound \ actual :
      ~IsZero(FieldOf(n), pre[PathOf(n)]) => rec[PathOf(n)] = pre[PathOf(n)]

\* a pre-populated field (9) survives a flag left at its default (5)
C1_Witness ==
  /\ Synced /\ adds = 1 /\ "a" \in Bound \ actual
  /\ fs["a"].DefValue = "5" /\ PathOf("a") = <<0>>
  /\ pre[<<0>>].v = 9 /\ rec[<<0>>].v = 9

\* C2 (Write-skip policy): a successful SetFromFlags leaves out the write of
\* a bound field exactly when the field is non zero and the flag's String()
\* equals its DefValue and the flag was not set on the command line; a flag
\* set on the command line is always written, the field then holding its value.
C2_WriteSkip ==
  Synced =>
    \A n \in Bound :
      /\ n \notin written <=>
           (/\ ~IsZero(FieldOf(n), pre[PathOf(n)])
            /\ String(fs[n].typ, fs[n].value) = fs[n].DefValue
            /\ n \notin actual)
      /\ n \in actual =>
           (n \in written /\ rec[PathOf(n)] = InField(fs[n].typ, fs[n].value, FieldOf(n).typ))

\* -a=+5 on a flag whose default is 5, the field holding 9: 5 is written
C2_Witness ==
  /\ Synced /\ "a" \in Bound /\ "a" \in actual /\ args["a"] = "+5"
  /\ fs["a"].DefValue = "5" /\ PathOf("a") = <<0>>
  /\ pre[<<0>>].v = 9 /\ rec[<<0>>].v = 5 /\ "a" \in written

\* the case of the Round-trip property: all fields zero, AddFlags into an empty
\* registry, one flag set on the command line, the first SetFromFlags
RoundTrip ==
  /\ Synced /\ sets = 1 /\ adds = 1 /\ preFs = <<>>
  /\ AllZero(pre) /\ Cardinality(actual) = 1
AssignedHeld ==
  \A n \in actual :
    /\ n \in Bound
    /\ rec[PathOf(n)] = InField(fs[n].typ, SetValue(fs[n].typ, args[n]).v, FieldOf(n).typ)

\* C3 as stated: the field of the flag set holds the assigned value and every
\* other field is still at its zero value.
C3_AsStated ==
  RoundTrip =>
    /\ AssignedHeld
    /\ \A p \in DOMAIN rec :
         (\A n \in actual : PathOf(n) # p) => rec[p] = ZeroCell(FieldAt(root, p))

\* C3 (Round-trip), amended: the field of the flag set holds the assigned
\* value converted to the field's type; every other bound field holds the
\* default value of its annotation (the zero value for the empty default),
\* converted likewise, a pointer field pointing to it; every field bound to
\* no flag is still at its zero value.
C3_RoundTrip ==
  RoundTrip =>
    /\ AssignedHeld
    /\ \A n \in Bound \ actual :
         rec[PathOf(n)] =
           InField(fs[n].typ, DefaultOf(fs[n].typ, TagDefault(FieldOf(n))), FieldOf(n).typ)
    /\ \A p \in DOMAIN rec :
         (\A n \in Bound : PathOf(n) # p) => rec[p] = ZeroCell(FieldAt(root, p))

\* -c=300 into an int8 field, beside an int field whose default is 5
C3_Witness ==
  /\ RoundTrip /\ actual = {"c"} /\ args["c"] = "300"
  /\ Bound = {"a", "c"}
  /\ rec[PathOf("c")].v = 44 /\ rec[PathOf("a")].v = 5

\* C4 (Canonical default): after a successful AddFlags each annotated field of
\* a built-in kind has one flag of its name, and one field only has that name;
\* the flag's DefValue is the String() of the default-value segment set into
\* the flag, the zero value standing for the empty segment.
C4_CanonicalDefault ==
  Added =>
    \A i \in 1..Len(RootAnnotated) :
      LET f == RootAnnotated[i] IN
      BuiltIn(f) =>
        /\ TagName(f) \in DOMAIN fs
        /\ \A j \in 1..Len(RootAnnotated) : TagName(RootAnnotated[j]) = TagName(f) => j = i
        /\ TagDefault(f) # "" => SetValue(fs[TagName(f)].typ, TagDefault(f)).ok
        /\ fs[TagName(f)].DefValue =
             String(fs[TagName(f)].typ, DefaultOf(fs[TagName(f)].typ, TagDefault(f)))

\* the default "1" of a bool is recorded as "true", "60s" as "1m0s"
C4_Witness ==
  /\ Added /\ preFs = <<>> /\ DOMAIN fs = {"b", "d"}
  /\ Len(RootAnnotated) = 2
  /\ fs["b"].DefValue = "true" /\ fs["d"].DefValue = "1m0s"

\* C5 (Duplicate names): AddFlags fails when two of the annotated fields it is
\* to visit have the same name, at whatever depths, and when the name of one
\* is defined in the registry already; getFlagIndexes fails when two of the
\* annotated fields it is to visit have the same name.
C5_Duplicates ==
  /\ (op = "AddFlags" /\ HasDuplicate(RootAnnotated)) => err # ""
  /\ (op = "AddFlags" /\ \E i \in 1..Len(RootAnnotated) :
                           TagName(RootAnnotated[i]) \in DOMAIN preFs) => err # ""
  /\ (IsRecord /\ HasDuplicate([i \in 1..Len(RootIndexed) |-> RootIndexed[i].f]))
       => Index.err # ""
  /\ (op = "SetFromFlags" /\ HasDuplicate([i \in 1..Len(RootIndexed) |-> RootIndexed[i].f]))
       => (err # "" /\ rec = pre)

\* the same name at depth 1 and at depth 3
C5_Witness ==
  /\ op = "AddFlags" /\ err = "flag already defined" /\ at = "a" /\ preFs = <<>>
  /\ Len(RootAnnotated) = 2 /\ Len(root.sub) = 2
  /\ root.sub[1].tag # <<>> /\ root.sub[2].typ = "struct" /\ root.sub[2].sub[1].typ = "struct"

\* C6 (Ordering): SetFromFlags on a registry that is not parsed panics and
\* changes no field; a field changes only in a SetFromFlags call on a parsed
\* registry, and only a field bound to a flag defined in the registry.
C6_Ordering ==
  [][ /\ (op' = "SetFromFlags" /\ ~parsed) => (err' = "flag not parsed" /\ rec' = rec)
      /\ rec' # rec =>
           /\ op' = "SetFromFlags" /\ parsed
           /\ \A p \in DOMAIN rec : rec'[p] # rec[p] => \E n \in Bound : PathOf(n) = p ]_vars

\* SetFromFlags before Parse on a registry whose flags would be written
C6_Witness ==
  /\ op = "SetFromFlags" /\ err = "flag not parsed" /\ ~parsed /\ adds = 1
  /\ rec = pre /\ AllZero(rec) /\ "a" \in Bound /\ fs["a"].DefValue = "5"

\* C7 (Custom values): after a successful AddFlags the flag of an annotated
\* field of a flag.Value type with a non empty default d has the DefValue d;
\* SetFromFlags, the flag not set on the command line and the field zero,
\* writes d into the field.
C7_Custom ==
  /\ Added =>
       \A i \in 1..Len(RootAnnotated) :
         LET f == RootAnnotated[i] IN
         (Implements(f.typ) /\ TagDefault(f) # "") =>
           /\ TagName(f) \in DOMAIN fs
           /\ fs[TagName(f)].DefValue = TagDefault(f)
  /\ (Synced /\ adds >= 1) =>
       \A n \in Bound \ actual :
         (/\ Implements(FieldOf(n).typ) /\ TagDefault(FieldOf(n)) # ""
          /\ IsZero(FieldOf(n), pre[PathOf(n)]))
         => (n \in written /\ rec[PathOf(n)] = [nil |-> FALSE, v |-> TagDefault(FieldOf(n))])

\* "mode,fast,help" on a Mode field: fast is written into the zero field
C7_Witness ==
  /\ Synced /\ "mode" \in Bound \ actual /\ fs["mode"].DefValue = "fast"
  /\ FieldOf("mode").typ = "Mode" /\ ~FieldOf("mode").ptr
  /\ pre[PathOf("mode")].v = "" /\ rec[PathOf("mode")].v = "fast"

\* C8 (Registrar/index agreement): when AddFlags into an empty registry
\* succeeds, getFlagIndexes succeeds on the same Record and the names of its
\* index are the names of the flags registered.
C8_Agreement ==
  (Added /\ adds = 1 /\ preFs = <<>>) =>
    /\ Index.err = ""
    /\ DOMAIN Index.indexes = DOMAIN fs
    /\ \A n \in DOMAIN fs : \E i \in 1..Len(RootIndexed) :
         TagName(RootIndexed[i].f) = n /\ RootIndexed[i].path = PathOf(n)

\* a nested record beside a non exported annotated field
C8_Witness ==
  /\ Added /\ adds = 1 /\ preFs = <<>> /\ DOMAIN fs = {"d"} /\ Len(root.sub) = 2
  /\ root.sub[1].typ = "struct" /\ ~root.sub[1].anonymous /\ PathOf("d") = <<0, 0>>
  /\ ~root.sub[2].exported /\ root.sub[2].tag # <<>>

\* what AddFlags is to leave in the registry: the flags of the annotated
\* fields, in order, up to the first that fails
FailsWith(reg, f) ==
  IF f.tag = <<>> \/ Len(f.tag) < 3 THEN "other"
  ELSE IF TagName(f) \in DOMAIN reg THEN "flag already defined"
  ELSE IF ~BuiltIn(f) /\ ~Implements(f.typ) THEN "invalid type"
  ELSE IF TagDefault(f) # "" /\ ~SetValue(Dispatch(f.typ), TagDefault(f)).ok
       THEN "invalid default value"
  ELSE ""
RECURSIVE Expected(_, _, _)
Expected(reg, fields, i) ==
  IF i > Len(fields) THEN [fs |-> reg, k |-> 0]
  ELSE IF FailsWith(reg, fields[i]) # "" THEN [fs |-> reg, k |-> i]
  ELSE LET ftyp == Dispatch(fields[i].typ)
           v == DefaultOf(ftyp, TagDefault(fields[i]))
       IN Expected(Define(reg, TagName(fields[i]),
                          [typ |-> ftyp, value |-> v, DefValue |-> String(ftyp, v),
                           Usage |-> SubSeq(fields[i].tag, 3, Len(fields[i].tag))]),
                   fields, i + 1)
FatalAtField ==
  op = "AddFlags" /\ err \in {"flag already defined", "invalid type", "invalid default value"}

\* C9 as stated: after a fatal AddFlags the registry holds the flags it held
\* before and the flags of the annotated fields before the failing one, each
\* with its default applied, and no flag for the failing field.
C9_AsStated ==
  FatalAtField => fs = Expected(preFs, RootAnnotated, 1).fs

\* C9 (No rollback), amended: after a fatal AddFlags the registry holds the
\* flags it held before, unchanged, and the flags of the annotated fields
\* before the failing one, each with its default applied; it holds no new flag
\* for a field that fails on a duplicate name or an unsupported type, and for
\* a field that fails on its default value it holds the field's flag, defined
\* with the zero value as DefValue.
C9_NoRollback ==
  FatalAtField =>
    LET e == Expected(preFs, RootAnnotated, 1)
        f == RootAnnotated[e.k]
    IN /\ e.k > 0
       /\ FailsWith(e.fs, f) = err
       /\ TagName(f) = at
       /\ \A n \in DOMAIN preFs : n \in DOMAIN fs /\ fs[n] = preFs[n]
       /\ \A n \in DOMAIN e.fs : n \in DOMAIN fs /\ fs[n] = e.fs[n]
       /\ IF err = "invalid default value"
          THEN /\ DOMAIN fs = DOMAIN e.fs \cup {at}
               /\ fs[at].DefValue = String(fs[at].typ, Zero(fs[at].typ))
          ELSE DOMAIN fs = DOMAIN e.fs

\* "d,notaduration,help" after a field registered with its default
C9_Witness ==
  /\ FatalAtField /\ err = "invalid default value" /\ at = "d" /\ preFs = <<>>
  /\ DOMAIN fs = {"b", "d"} /\ fs["b"].DefValue = "true" /\ fs["d"].DefValue = "0s"

\* C10 (Idempotence): a SetFromFlags call that follows a successful one, on the
\* same Record and registry, succeeds and leaves every field as the first
\* call left it.
C10_Idempotent ==
  (op = "SetFromFlags" /\ sets >= 2) => (err = "" /\ rec = pre)

\* the second call writes a pointer field again (flag set) and skips a field
\* the first call filled from a default
C10_Witness ==
  /\ Synced /\ sets = 2 /\ rec = pre /\ adds = 1
  /\ written = {"p"} /\ Bound = {"b", "p"} /\ FieldOf("p").ptr
  /\ rec[PathOf("b")].v = TRUE

====
